---- MODULE Spec2Model ----
(***************************************************************************)
(* Model of the props bot (src/props/bot/main.py): the command parser     *)
(* (parse_regex, parse), the in-memory ledger PropsBot.props with         *)
(* PropsBot.update, and the /slack/events handler slack_events.           *)
(*                                                                         *)
(* A Python str is the sequence of its one-character strings, '' the     *)
(* empty sequence.  Python's None is the value None below, which is no    *)
(* str: it differs from '' and from the text "None".                      *)
(*                                                                         *)
(* Four specifications share the variables:                               *)
(*   Spec       the web application: requests arrive, slack_events runs   *)
(*   SpecBot    the methods of one PropsBot called directly               *)
(*   SpecParse  parse applied to every text of a bounded alphabet         *)
(*   SpecText   one message, parsed directly and handled as a request     *)
(***************************************************************************)
EXTENDS Integers, Sequences, FiniteSets, TLC

VARIABLES
    props,   \* the ledger PropsBot.props: name -> (prop -> value)
    sent,    \* the chat.postMessage calls made so far, in order
    hs,      \* the request handlers: where each stands and what it holds
    nreq,    \* the number of requests received so far
    bot,     \* the event of the PropsBot whose methods are called directly
    calls    \* the direct method calls made so far, with their results

vars == <<props, sent, hs, nreq, bot, calls>>

(* ------------------------------ bounds -------------------------------- *)

\* longest text drawn in SpecParse
MaxLen == 6
\* number of direct method calls made in SpecBot
MaxCalls == 3
\* number of requests received in Spec
MaxEvents == 3

(* ----------------------------- characters ----------------------------- *)

None == <<"None">>

\* bool(x) of a str or None: false for None and for ''
Truthy(x) == x # None /\ x # <<>>

Lower == {"a","b","c","d","e","f","g","h","i","j","k","l","m",
          "n","o","p","q","r","s","t","u","v","w","x","y","z"}
Upper == {"A","B","C","D","E","F","G","H","I","J","K","L","M",
          "N","O","P","Q","R","S","T","U","V","W","X","Y","Z"}
Digit == {"0","1","2","3","4","5","6","7","8","9"}

\* IdentChar as [A-Za-z_-], the digits forgotten
IdentChar_NoDigits == Lower \cup Upper \cup {"_", "-"}

\* IdentChar as [A-Za-z0-9_+-], a '+' slipped into the class
IdentChar_WithPlus == Lower \cup Upper \cup Digit \cup {"_", "+", "-"}

\* the character class [A-Za-z0-9_-] of parse_regex
IdentChar == Lower \cup Upper \cup Digit \cup {"_", "-"}

\* the alternatives of the operator group, \+\+|--|\+=|-=
OperatorTokens == { <<"+","+">>, <<"-","-">>, <<"+","=">>, <<"-","=">> }

(* ------------------------------- parser ------------------------------- *)

\* length of the longest run of identifier characters of text from index i:
\* what the greedy [A-Za-z0-9_-]+ consumes there (0: it does not match)
RECURSIVE IdentRun(_, _)
IdentRun(text, i) ==
    IF i <= Len(text) /\ text[i] \in IdentChar
    THEN 1 + IdentRun(text, i + 1)
    ELSE 0

\* parse_regex matched at index i, where the target group matches.  Every
\* group after target is optional, so the match succeeds with the greedy
\* choice of each group and never backtracks into an earlier one.
GroupsAt(text, i) ==
    LET n    == IdentRun(text, i)
        j    == i + n
        m    == IF j <= Len(text) /\ text[j] = ":" THEN IdentRun(text, j + 1) ELSE 0
        prop == IF m > 0 THEN SubSeq(text, j + 1, j + m) ELSE None
        k    == IF m > 0 THEN j + 1 + m ELSE j
        tok  == IF k + 1 <= Len(text) THEN SubSeq(text, k, k + 1) ELSE None
        op   == IF tok \in OperatorTokens THEN tok ELSE None
        l    == IF op # None THEN k + 2 ELSE k
        opd  == IF l <= Len(text) /\ text[l] \in Digit THEN <<text[l]>> ELSE None
    IN  <<SubSeq(text, i, j - 1), prop, op, opd>>

\* parse_regex.search(text) of a str and the four fields parse makes of it:
\* search takes the leftmost index where the pattern matches; without a
\* match all four fields are None
search(text) ==
    LET starts == {i \in 1..Len(text) : IdentRun(text, i) > 0}
    IN  IF starts # {}
        THEN GroupsAt(text, CHOOSE i \in starts : \A i2 \in starts : i <= i2)
        ELSE <<None, None, None, None>>

\* parse(text): re.search raises TypeError when text is None
parse(text) ==
    IF text = None
    THEN [err |-> "TypeError", val |-> None]
    ELSE [err |-> "", val |-> search(text)]

(* ------------------------- dictionaries, text ------------------------- *)

\* the empty dict {}
EmptyDict == [k \in {} |-> 0]

\* d.get(k, default)
Get(d, k, default) == IF k \in DOMAIN d THEN d[k] ELSE default

\* d after d.pop(k, default): k is no longer a key
Without(d, k) == [x \in DOMAIN d \ {k} |-> d[x]]

\* d after d[k] = v
With(d, k, v) == [x \in DOMAIN d \cup {k} |-> IF x = k THEN v ELSE d[x]]

\* A character above U+00FF, which no string of the module can hold, is the
\* string naming its code point: "U+0663" is ARABIC-INDIC DIGIT THREE.

\* U+000B, U+0085 and U+00A0
VerticalTab == ""
NextLine == ""
NoBreakSpace == " "

\* the characters int skips before and after the number: the six of ASCII
\* and the white space of Unicode above it
Whitespace ==
    { " ", "\t", "\n", "\r", "\f", VerticalTab, NextLine, NoBreakSpace,
      "U+1680", "U+2000", "U+2001", "U+2002", "U+2003", "U+2004", "U+2005",
      "U+2006", "U+2007", "U+2008", "U+2009", "U+200A", "U+2028", "U+2029",
      "U+202F", "U+205F", "U+3000" }

\* the decimal digits of Unicode above ASCII (category Nd of Unicode 14.0),
\* which int reads as their values: UnicodeDigits[d + 1] holds those of
\* value d
UnicodeDigits ==
    <<
    \* the digits of value 0
    {
      "U+0660", "U+06F0", "U+07C0", "U+0966", "U+09E6", "U+0A66", "U+0AE6",
      "U+0B66", "U+0BE6", "U+0C66", "U+0CE6", "U+0D66", "U+0DE6", "U+0E50",
      "U+0ED0", "U+0F20", "U+1040", "U+1090", "U+17E0", "U+1810", "U+1946",
      "U+19D0", "U+1A80", "U+1A90", "U+1B50", "U+1BB0", "U+1C40", "U+1C50",
      "U+A620", "U+A8D0", "U+A900", "U+A9D0", "U+A9F0", "U+AA50", "U+ABF0",
      "U+FF10", "U+104A0", "U+10D30", "U+11066", "U+110F0", "U+11136",
      "U+111D0", "U+112F0", "U+11450", "U+114D0", "U+11650", "U+116C0",
      "U+11730", "U+118E0", "U+11950", "U+11C50", "U+11D50", "U+11DA0",
      "U+16A60", "U+16AC0", "U+16B50", "U+1D7CE", "U+1D7D8", "U+1D7E2",
      "U+1D7EC", "U+1D7F6", "U+1E140", "U+1E2F0", "U+1E950", "U+1FBF0" },
    \* the digits of value 1
    {
      "U+0661", "U+06F1", "U+07C1", "U+0967", "U+09E7", "U+0A67", "U+0AE7",
      "U+0B67", "U+0BE7", "U+0C67", "U+0CE7", "U+0D67", "U+0DE7", "U+0E51",
      "U+0ED1", "U+0F21", "U+1041", "U+1091", "U+17E1", "U+1811", "U+1947",
      "U+19D1", "U+1A81", "U+1A91", "U+1B51", "U+1BB1", "U+1C41", "U+1C51",
      "U+A621", "U+A8D1", "U+A901", "U+A9D1", "U+A9F1", "U+AA51", "U+ABF1",
      "U+FF11", "U+104A1", "U+10D31", "U+11067", "U+110F1", "U+11137",
      "U+111D1", "U+112F1", "U+11451", "U+114D1", "U+11651", "U+116C1",
      "U+11731", "U+118E1", "U+11951", "U+11C51", "U+11D51", "U+11DA1",
      "U+16A61", "U+16AC1", "U+16B51", "U+1D7CF", "U+1D7D9", "U+1D7E3",
      "U+1D7ED", "U+1D7F7", "U+1E141", "U+1E2F1", "U+1E951", "U+1FBF1" },
    \* the digits of value 2
    {
      "U+0662", "U+06F2", "U+07C2", "U+0968", "U+09E8", "U+0A68", "U+0AE8",
      "U+0B68", "U+0BE8", "U+0C68", "U+0CE8", "U+0D68", "U+0DE8", "U+0E52",
      "U+0ED2", "U+0F22", "U+1042", "U+1092", "U+17E2", "U+1812", "U+1948",
      "U+19D2", "U+1A82", "U+1A92", "U+1B52", "U+1BB2", "U+1C42", "U+1C52",
      "U+A622", "U+A8D2", "U+A902", "U+A9D2", "U+A9F2", "U+AA52", "U+ABF2",
      "U+FF12", "U+104A2", "U+10D32", "U+11068", "U+110F2", "U+11138",
      "U+111D2", "U+112F2", "U+11452", "U+114D2", "U+11652", "U+116C2",
      "U+11732", "U+118E2", "U+11952", "U+11C52", "U+11D52", "U+11DA2",
      "U+16A62", "U+16AC2", "U+16B52", "U+1D7D0", "U+1D7DA", "U+1D7E4",
      "U+1D7EE", "U+1D7F8", "U+1E142", "U+1E2F2", "U+1E952", "U+1FBF2" },
    \* the digits of value 3
    {
      "U+0663", "U+06F3", "U+07C3", "U+0969", "U+09E9", "U+0A69", "U+0AE9",
      "U+0B69", "U+0BE9", "U+0C69", "U+0CE9", "U+0D69", "U+0DE9", "U+0E53",
      "U+0ED3", "U+0F23", "U+1043", "U+1093", "U+17E3", "U+1813", "U+1949",
      "U+19D3", "U+1A83", "U+1A93", "U+1B53", "U+1BB3", "U+1C43", "U+1C53",
      "U+A623", "U+A8D3", "U+A903", "U+A9D3", "U+A9F3", "U+AA53", "U+ABF3",
      "U+FF13", "U+104A3", "U+10D33", "U+11069", "U+110F3", "U+11139",
      "U+111D3", "U+112F3", "U+11453", "U+114D3", "U+11653", "U+116C3",
      "U+11733", "U+118E3", "U+11953", "U+11C53", "U+11D53", "U+11DA3",
      "U+16A63", "U+16AC3", "U+16B53", "U+1D7D1", "U+1D7DB", "U+1D7E5",
      "U+1D7EF", "U+1D7F9", "U+1E143", "U+1E2F3", "U+1E953", "U+1FBF3" },
    \* the digits of value 4
    {
      "U+0664", "U+06F4", "U+07C4", "U+096A", "U+09EA", "U+0A6A", "U+0AEA",
      "U+0B6A", "U+0BEA", "U+0C6A", "U+0CEA", "U+0D6A", "U+0DEA", "U+0E54",
      "U+0ED4", "U+0F24", "U+1044", "U+1094", "U+17E4", "U+1814", "U+194A",
      "U+19D4", "U+1A84", "U+1A94", "U+1B54", "U+1BB4", "U+1C44", "U+1C54",
      "U+A624", "U+A8D4", "U+A904", "U+A9D4", "U+A9F4", "U+AA54", "U+ABF4",
      "U+FF14", "U+104A4", "U+10D34", "U+1106A", "U+110F4", "U+1113A",
      "U+111D4", "U+112F4", "U+11454", "U+114D4", "U+11654", "U+116C4",
      "U+11734", "U+118E4", "U+11954", "U+11C54", "U+11D54", "U+11DA4",
      "U+16A64", "U+16AC4", "U+16B54", "U+1D7D2", "U+1D7DC", "U+1D7E6",
      "U+1D7F0", "U+1D7FA", "U+1E144", "U+1E2F4", "U+1E954", "U+1FBF4" },
    \* the digits of value 5
    {
      "U+0665", "U+06F5", "U+07C5", "U+096B", "U+09EB", "U+0A6B", "U+0AEB",
      "U+0B6B", "U+0BEB", "U+0C6B", "U+0CEB", "U+0D6B", "U+0DEB", "U+0E55",
      "U+0ED5", "U+0F25", "U+1045", "U+1095", "U+17E5", "U+1815", "U+194B",
      "U+19D5", "U+1A85", "U+1A95", "U+1B55", "U+1BB5", "U+1C45", "U+1C55",
      "U+A625", "U+A8D5", "U+A905", "U+A9D5", "U+A9F5", "U+AA55", "U+ABF5",
      "U+FF15", "U+104A5", "U+10D35", "U+1106B", "U+110F5", "U+1113B",
      "U+111D5", "U+112F5", "U+11455", "U+114D5", "U+11655", "U+116C5",
      "U+11735", "U+118E5", "U+11955", "U+11C55", "U+11D55", "U+11DA5",
      "U+16A65", "U+16AC5", "U+16B55", "U+1D7D3", "U+1D7DD", "U+1D7E7",
      "U+1D7F1", "U+1D7FB", "U+1E145", "U+1E2F5", "U+1E955", "U+1FBF5" },
    \* the digits of value 6
    {
      "U+0666", "U+06F6", "U+07C6", "U+096C", "U+09EC", "U+0A6C", "U+0AEC",
      "U+0B6C", "U+0BEC", "U+0C6C", "U+0CEC", "U+0D6C", "U+0DEC", "U+0E56",
      "U+0ED6", "U+0F26", "U+1046", "U+1096", "U+17E6", "U+1816", "U+194C",
      "U+19D6", "U+1A86", "U+1A96", "U+1B56", "U+1BB6", "U+1C46", "U+1C56",
      "U+A626", "U+A8D6", "U+A906", "U+A9D6", "U+A9F6", "U+AA56", "U+ABF6",
      "U+FF16", "U+104A6", "U+10D36", "U+1106C", "U+110F6", "U+1113C",
      "U+111D6", "U+112F6", "U+11456", "U+114D6", "U+11656", "U+116C6",
      "U+11736", "U+118E6", "U+11956", "U+11C56", "U+11D56", "U+11DA6",
      "U+16A66", "U+16AC6", "U+16B56", "U+1D7D4", "U+1D7DE", "U+1D7E8",
      "U+1D7F2", "U+1D7FC", "U+1E146", "U+1E2F6", "U+1E956", "U+1FBF6" },
    \* the digits of value 7
    {
      "U+0667", "U+06F7", "U+07C7", "U+096D", "U+09ED", "U+0A6D", "U+0AED",
      "U+0B6D", "U+0BED", "U+0C6D", "U+0CED", "U+0D6D", "U+0DED", "U+0E57",
      "U+0ED7", "U+0F27", "U+1047", "U+1097", "U+17E7", "U+1817", "U+194D",
      "U+19D7", "U+1A87", "U+1A97", "U+1B57", "U+1BB7", "U+1C47", "U+1C57",
      "U+A627", "U+A8D7", "U+A907", "U+A9D7", "U+A9F7", "U+AA57", "U+ABF7",
      "U+FF17", "U+104A7", "U+10D37", "U+1106D", "U+110F7", "U+1113D",
      "U+111D7", "U+112F7", "U+11457", "U+114D7", "U+11657", "U+116C7",
      "U+11737", "U+118E7", "U+11957", "U+11C57", "U+11D57", "U+11DA7",
      "U+16A67", "U+16AC7", "U+16B57", "U+1D7D5", "U+1D7DF", "U+1D7E9",
      "U+1D7F3", "U+1D7FD", "U+1E147", "U+1E2F7", "U+1E957", "U+1FBF7" },
    \* the digits of value 8
    {
      "U+0668", "U+06F8", "U+07C8", "U+096E", "U+09EE", "U+0A6E", "U+0AEE",
      "U+0B6E", "U+0BEE", "U+0C6E", "U+0CEE", "U+0D6E", "U+0DEE", "U+0E58",
      "U+0ED8", "U+0F28", "U+1048", "U+1098", "U+17E8", "U+1818", "U+194E",
      "U+19D8", "U+1A88", "U+1A98", "U+1B58", "U+1BB8", "U+1C48", "U+1C58",
      "U+A628", "U+A8D8", "U+A908", "U+A9D8", "U+A9F8", "U+AA58", "U+ABF8",
      "U+FF18", "U+104A8", "U+10D38", "U+1106E", "U+110F8", "U+1113E",
      "U+111D8", "U+112F8", "U+11458", "U+114D8", "U+11658", "U+116C8",
      "U+11738", "U+118E8", "U+11958", "U+11C58", "U+11D58", "U+11DA8",
      "U+16A68", "U+16AC8", "U+16B58", "U+1D7D6", "U+1D7E0", "U+1D7EA",
      "U+1D7F4", "U+1D7FE", "U+1E148", "U+1E2F8", "U+1E958", "U+1FBF8" },
    \* the digits of value 9
    {
      "U+0669", "U+06F9", "U+07C9", "U+096F", "U+09EF", "U+0A6F", "U+0AEF",
      "U+0B6F", "U+0BEF", "U+0C6F", "U+0CEF", "U+0D6F", "U+0DEF", "U+0E59",
      "U+0ED9", "U+0F29", "U+1049", "U+1099", "U+17E9", "U+1819", "U+194F",
      "U+19D9", "U+1A89", "U+1A99", "U+1B59", "U+1BB9", "U+1C49", "U+1C59",
      "U+A629", "U+A8D9", "U+A909", "U+A9D9", "U+A9F9", "U+AA59", "U+ABF9",
      "U+FF19", "U+104A9", "U+10D39", "U+1106F", "U+110F9", "U+1113F",
      "U+111D9", "U+112F9", "U+11459", "U+114D9", "U+11659", "U+116C9",
      "U+11739", "U+118E9", "U+11959", "U+11C59", "U+11D59", "U+11DA9",
      "U+16A69", "U+16AC9", "U+16B59", "U+1D7D7", "U+1D7E1", "U+1D7EB",
      "U+1D7F5", "U+1D7FF", "U+1E149", "U+1E2F9", "U+1E959", "U+1FBF9" }
    >>

\* the characters int reads as a decimal digit
IntDigit == Digit \cup UNION { UnicodeDigits[i] : i \in 1..10 }

DigitValue(c) ==
    CASE c = "0" -> 0 [] c = "1" -> 1 [] c = "2" -> 2 [] c = "3" -> 3 [] c = "4" -> 4
      [] c = "5" -> 5 [] c = "6" -> 6 [] c = "7" -> 7 [] c = "8" -> 8 [] c = "9" -> 9
      [] OTHER -> CHOOSE d \in 0..9 : c \in UnicodeDigits[d + 1]

\* y without the characters int skips at its two ends
RECURSIVE Strip(_)
Strip(y) ==
    IF y # <<>> /\ y[1] \in Whitespace THEN Strip(Tail(y))
    ELSE IF y # <<>> /\ y[Len(y)] \in Whitespace THEN Strip(SubSeq(y, 1, Len(y) - 1))
    ELSE y

\* a decimal number as int reads it: digits, with single underscores between
\* digits
IsDecimal(y) ==
    /\ y # <<>>
    /\ \A i \in 1..Len(y) : y[i] \in IntDigit \cup {"_"}
    /\ y[1] \in IntDigit /\ y[Len(y)] \in IntDigit
    /\ \A i \in 1..(Len(y) - 1) : ~(y[i] = "_" /\ y[i + 1] = "_")

RECURSIVE DecimalValue(_)
DecimalValue(y) ==
    IF y = <<>> THEN 0
    ELSE IF y[Len(y)] = "_" THEN DecimalValue(SubSeq(y, 1, Len(y) - 1))
    ELSE 10 * DecimalValue(SubSeq(y, 1, Len(y) - 1)) + DigitValue(y[Len(y)])

\* int(y) of a str or None: TypeError for None, ValueError for a str that is
\* no decimal number with an optional sign '+' or '-' before it and skipped
\* characters around it
int(y) ==
    IF y = None THEN [err |-> "TypeError", val |-> 0]
    ELSE LET t    == Strip(y)
             neg  == t # <<>> /\ t[1] = "-"
             body == IF t # <<>> /\ t[1] \in {"+", "-"} THEN Tail(t) ELSE t
         IN  IF ~IsDecimal(body) THEN [err |-> "ValueError", val |-> 0]
             ELSE [err |-> "", val |-> IF neg THEN 0 - DecimalValue(body)
                                       ELSE DecimalValue(body)]

\* str(n) of an integer
DigitChar(n) ==
    CASE n = 0 -> "0" [] n = 1 -> "1" [] n = 2 -> "2" [] n = 3 -> "3" [] n = 4 -> "4"
      [] n = 5 -> "5" [] n = 6 -> "6" [] n = 7 -> "7" [] n = 8 -> "8" [] n = 9 -> "9"

RECURSIVE NatStr(_)
NatStr(n) == IF n < 10 THEN <<DigitChar(n)>> ELSE NatStr(n \div 10) \o <<DigitChar(n % 10)>>

IntStr(n) == IF n < 0 THEN <<"-">> \o NatStr(0 - n) ELSE NatStr(n)

\* how an f-string renders a str or None
Fmt(x) == IF x = None THEN <<"N","o","n","e">> ELSE x

\* f'{name}:{prop} => {value}'
Message(name, prop, value) ==
    Fmt(name) \o <<":">> \o Fmt(prop) \o <<" ","=",">"," ">> \o IntStr(value)

(* ------------------------------ PropsBot ------------------------------ *)

\* the configured channel CFG.PROPS_BOT_CHANNEL_ID, and some other channel
PROPS_BOT_CHANNEL_ID == <<"C","-","p","r","o","p","s">>
OtherChannel == <<"C","-","o","t","h","e","r">>

\* the username the bot posts under
Props == <<"p","r","o","p","s">>

\* PropsBot.text: the event's text, or EventTextError
PropsBot_text(event) ==
    IF "text" \in DOMAIN event
    THEN [err |-> "", val |-> event.text]
    ELSE [err |-> "EventTextError", val |-> None]

\* PropsBot.channel: the event's channel, or EventChannelError
PropsBot_channel(event) ==
    IF "channel" \in DOMAIN event
    THEN [err |-> "", val |-> event.channel]
    ELSE [err |-> "EventChannelError", val |-> None]

\* PropsBot.parse(text=None): searches text when it is truthy, self.text
\* otherwise; re.search raises TypeError when self.text is None
PropsBot_parse(event, text) ==
    LET src == IF Truthy(text) THEN [err |-> "", val |-> text] ELSE PropsBot_text(event)
    IN  IF src.err # ""
        THEN [err |-> src.err, val |-> None]
        ELSE parse(src.val)

\* operators applying the operand to '++' and '--' as well, as augment does
operators_Augment(operator, x, y) ==
    LET n == IF Truthy(y) THEN int(y) ELSE [err |-> "", val |-> 1]
    IN  CASE operator \in {<<"+","+">>, <<"+","=">>} -> [err |-> n.err, val |-> x + n.val]
          [] operator \in {<<"-","-">>, <<"-","=">>} -> [err |-> n.err, val |-> x - n.val]
          [] OTHER -> [err |-> "KeyError", val |-> x]

\* operators rejecting a missing operand, but counting '--' upwards
operators_SignSlip(operator, x, y) ==
    CASE operator = <<"+","+">> -> [err |-> "", val |-> x + 1]
      [] operator = <<"-","-">> -> [err |-> "", val |-> x + 1]
      [] operator = <<"+","=">> -> [err |-> int(y).err, val |-> x + int(y).val]
      [] operator = <<"-","=">> -> [err |-> int(y).err, val |-> x - int(y).val]
      [] OTHER -> [err |-> "KeyError", val |-> x]

\* PropsBot.operators[operator](x, y): KeyError for an operator that is no
\* key of the dict; '+=' and '-=' raise what int(y) raises
operators(operator, x, y) ==
    CASE operator = <<"+","+">> -> [err |-> "", val |-> x + 1]
      [] operator = <<"-","-">> -> [err |-> "", val |-> x - 1]
      [] operator = <<"+","=">> -> [err |-> int(y).err, val |-> x + int(y).val]
      [] operator = <<"-","=">> -> [err |-> int(y).err, val |-> x - int(y).val]
      [] OTHER -> [err |-> "KeyError", val |-> x]

\* PropsBot.send(message, channel=None): chat.postMessage to channel when it
\* is truthy and to self.channel otherwise (EventChannelError when the event
\* has none), appended to the messages posted so far
send(event, message, channel, outbox) ==
    LET ch == IF Truthy(channel) THEN [err |-> "", val |-> channel]
              ELSE PropsBot_channel(event)
    IN  IF ch.err # ""
        THEN [err |-> ch.err, sent |-> outbox]
        ELSE [err |-> "", sent |-> Append(outbox, [channel |-> ch.val, text |-> message])]

\* the value read for (name, prop): PropsBot.props.get(name, {}).get(prop, 0)
Read(ledger, name, prop) == Get(Get(ledger, name, EmptyDict), prop, 0)

\* update storing the value it read when there is no operator (setdefault)
update_QueryStores(event, name, prop, operator, operand, ledger, outbox) ==
    LET member_props == Get(ledger, name, EmptyDict)
        popped       == Without(ledger, name)
        prop_value   == Get(member_props, prop, 0)
        r            == IF ~Truthy(operator) THEN [err |-> "", val |-> prop_value]
                        ELSE operators(operator, prop_value, operand)
        after        == With(popped, name, With(Without(member_props, prop), prop, r.val))
        s            == send(event, Message(name, prop, Read(after, name, prop)), None, outbox)
    IN  IF r.err # ""
        THEN [err |-> r.err, props |-> popped, sent |-> outbox]
        ELSE [err |-> s.err, props |-> after, sent |-> s.sent]

\* update reading the value it reports before it applies the operator
update_StaleReply(event, name, prop, operator, operand, ledger, outbox) ==
    LET member_props == Get(ledger, name, EmptyDict)
        popped       == Without(ledger, name)
        prop_value   == Get(member_props, prop, 0)
        r            == operators(operator, prop_value, operand)
        stored       == With(popped, name, With(Without(member_props, prop), prop, r.val))
        after        == IF ~Truthy(operator) THEN ledger ELSE stored
        s            == send(event, Message(name, prop, Read(ledger, name, prop)), None, outbox)
    IN  IF Truthy(operator) /\ r.err # ""
        THEN [err |-> r.err, props |-> popped, sent |-> outbox]
        ELSE [err |-> s.err, props |-> after, sent |-> s.sent]

\* update storing a new dict {prop: value} for name: the other properties of
\* name are not put back
update_DropsSiblings(event, name, prop, operator, operand, ledger, outbox) ==
    LET member_props == Get(ledger, name, EmptyDict)
        popped       == Without(ledger, name)
        prop_value   == Get(member_props, prop, 0)
        r            == operators(operator, prop_value, operand)
        stored       == With(popped, name, With(EmptyDict, prop, r.val))
        after        == IF ~Truthy(operator) THEN ledger ELSE stored
        s            == send(event, Message(name, prop, Read(after, name, prop)), None, outbox)
    IN  IF Truthy(operator) /\ r.err # ""
        THEN [err |-> r.err, props |-> popped, sent |-> outbox]
        ELSE [err |-> s.err, props |-> after, sent |-> s.sent]

\* PropsBot.update(name, prop, operator, operand) run on ledger and outbox:
\* the ledger and the outbox it leaves, and the exception it ends in ("" none).
\* With an operator the entry of name is popped from the ledger first and
\* put back only after the operator has been applied.
update(event, name, prop, operator, operand, ledger, outbox) ==
    LET member_props == Get(ledger, name, EmptyDict)
        popped       == Without(ledger, name)
        prop_value   == Get(member_props, prop, 0)
        r            == operators(operator, prop_value, operand)
        stored       == With(popped, name, With(Without(member_props, prop), prop, r.val))
        after        == IF ~Truthy(operator) THEN ledger ELSE stored
        s            == send(event, Message(name, prop, Read(after, name, prop)), None, outbox)
    IN  IF Truthy(operator) /\ r.err # ""
        THEN [err |-> r.err, props |-> popped, sent |-> outbox]
        ELSE [err |-> s.err, props |-> after, sent |-> s.sent]

(* --------------------------- the directory ---------------------------- *)

Amy == <<"a","m","y">>
Bob == <<"b","o","b">>
Eve == <<"e","v","e">>
Tea == <<"t","e","a">>

PlusPlus   == <<"+","+">>
MinusMinus == <<"-","-">>
PlusEq     == <<"+","=">>
MinusEq    == <<"-","=">>

\* the members users.list returns
Users == { [id |-> "U1", name |-> Amy], [id |-> "U2", name |-> Bob],
           [id |-> "U3", name |-> Eve] }

\* the member ids channels.info returns for a channel
ChannelMembers(channel) ==
    IF channel = PROPS_BOT_CHANNEL_ID THEN {"U1", "U2"} ELSE {"U3"}

\* how the two directory calls of a request end
ApiOutcomes == {"ok", "users.list fails", "channels.info fails"}

\* members_in_channel without the channel filter: every listed member
members_in_channel_Everyone(event, api) ==
    IF api = "users.list fails" THEN [err |-> "NameError", val |-> {}]
    ELSE [err |-> "", val |-> {m.name : m \in Users}]

\* PropsBot.members_in_channel: the names of the listed members whose id is
\* in channels_info.members.  A users.list answer without 'members' raises
\* the misspelt MemebersListError, a NameError; channels_info is read once
\* per listed member and raises ChannelsInfoError on a failed answer.
members_in_channel(event, api) ==
    IF api = "users.list fails" THEN [err |-> "NameError", val |-> {}]
    ELSE IF Users # {} /\ PropsBot_channel(event).err # ""
    THEN [err |-> PropsBot_channel(event).err, val |-> {}]
    ELSE IF Users # {} /\ api = "channels.info fails"
    THEN [err |-> "ChannelsInfoError", val |-> {}]
    ELSE [err |-> "",
          val |-> {m.name : m \in {u \in Users :
                      u.id \in ChannelMembers(PropsBot_channel(event).val)}}]

(* ------------------------- the request handler ------------------------ *)

\* slack_events without the test of line 187: the bot's own messages are
\* handled like any other
slack_events_NoEchoFilter(json, api, ledger, outbox) ==
    LET quiet(status, err) ==
            [status |-> status, err |-> err, props |-> ledger, sent |-> outbox]
        event  == json.event
        parsed == PropsBot_parse(event, None)
        name   == parsed.val[1]
        mic    == members_in_channel(event, api)
        u      == update(event, name, parsed.val[2], parsed.val[3], parsed.val[4],
                         ledger, outbox)
    IN  IF "challenge" \in DOMAIN json THEN quiet(200, "")
        ELSE IF "event" \notin DOMAIN json THEN quiet(500, "AttributeError")
        ELSE IF "channel" \notin DOMAIN event THEN quiet(500, "AttributeError")
        ELSE IF event.channel # PROPS_BOT_CHANNEL_ID /\ "text" \in DOMAIN event
             THEN quiet(200, "")
        ELSE IF parsed.err # "" THEN quiet(500, parsed.err)
        ELSE IF mic.err # "" THEN quiet(500, mic.err)
        ELSE IF name \notin mic.val THEN quiet(200, "")
        ELSE IF PropsBot_channel(event).err # ""
             THEN quiet(500, PropsBot_channel(event).err)
        ELSE [status |-> IF u.err = "" THEN 200 ELSE 500, err |-> u.err,
              props |-> u.props, sent |-> u.sent]

\* slack_events without the test of line 185: messages of every channel are
\* handled
slack_events_NoChannelFilter(json, api, ledger, outbox) ==
    LET quiet(status, err) ==
            [status |-> status, err |-> err, props |-> ledger, sent |-> outbox]
        event  == json.event
        parsed == PropsBot_parse(event, None)
        name   == parsed.val[1]
        mic    == members_in_channel(event, api)
        u      == update(event, name, parsed.val[2], parsed.val[3], parsed.val[4],
                         ledger, outbox)
    IN  IF "challenge" \in DOMAIN json THEN quiet(200, "")
        ELSE IF "event" \notin DOMAIN json THEN quiet(500, "AttributeError")
        ELSE IF "channel" \notin DOMAIN event THEN quiet(500, "AttributeError")
        ELSE IF "username" \in DOMAIN event /\ event.username = Props
             THEN quiet(200, "")
        ELSE IF parsed.err # "" THEN quiet(500, parsed.err)
        ELSE IF mic.err # "" THEN quiet(500, mic.err)
        ELSE IF name \notin mic.val THEN quiet(200, "")
        ELSE IF PropsBot_channel(event).err # ""
             THEN quiet(500, PropsBot_channel(event).err)
        ELSE [status |-> IF u.err = "" THEN 200 ELSE 500, err |-> u.err,
              props |-> u.props, sent |-> u.sent]

\* slack_events from the parsed body json on, run on ledger and outbox: the
\* response status, the exception that ended the request ("" none), and
\* the ledger and outbox it leaves.  json.event.channel is an attribute
\* read of an AttrDict, an AttributeError when the key is missing.
slack_events(json, api, ledger, outbox) ==
    LET quiet(status, err) ==
            [status |-> status, err |-> err, props |-> ledger, sent |-> outbox]
        event  == json.event
        parsed == PropsBot_parse(event, None)
        name   == parsed.val[1]
        mic    == members_in_channel(event, api)
        u      == update(event, name, parsed.val[2], parsed.val[3], parsed.val[4],
                         ledger, outbox)
    IN  IF "challenge" \in DOMAIN json THEN quiet(200, "")
        ELSE IF "event" \notin DOMAIN json THEN quiet(500, "AttributeError")
        ELSE IF "channel" \notin DOMAIN event THEN quiet(500, "AttributeError")
        ELSE IF event.channel # PROPS_BOT_CHANNEL_ID /\ "text" \in DOMAIN event
             THEN quiet(200, "")
        ELSE IF "username" \in DOMAIN event /\ event.username = Props
             THEN quiet(200, "")
        ELSE IF parsed.err # "" THEN quiet(500, parsed.err)
        ELSE IF mic.err # "" THEN quiet(500, mic.err)
        ELSE IF name \notin mic.val THEN quiet(200, "")
        ELSE IF PropsBot_channel(event).err # ""
             THEN quiet(500, PropsBot_channel(event).err)
        ELSE [status |-> IF u.err = "" THEN 200 ELSE 500, err |-> u.err,
              props |-> u.props, sent |-> u.sent]

(* ------------------------------- inputs ------------------------------- *)

\* the alphabet of SpecParse: a letter, a digit, the identifier character
\* '-', the other characters of the operators, ':' and a space
Alphabet == {"a", "1", "-", "+", "=", ":", " "}

Texts == UNION { [1..n -> Alphabet] : n \in 0..MaxLen }

\* a complete event of the props channel carrying text
Msg(text) == [channel |-> PROPS_BOT_CHANNEL_ID, text |-> text]

\* texts given to parse in SpecBot (None and '': parse the event's own text)
BotTexts == { None, <<>>, Bob \o MinusMinus, Amy \o PlusEq,
              Bob \o <<":">> \o Tea \o PlusEq \o <<"2">> }

\* arguments given to update in SpecBot: every operator with and without
\* an operand, on three pairs, and whatever parse returned for BotTexts
DirectArgs ==
    { <<np[1], np[2], oo[1], oo[2]>> :
        np \in { <<Amy, None>>, <<Bob, None>>, <<Bob, Tea>> },
        oo \in ({None, PlusPlus, MinusMinus, PlusEq, MinusEq} \X {None, <<"2">>})
                 \ { <<None, <<"2">> >> } }

\* the name '', the operand '', an operator that is no key of operators and
\* the operator ''
EdgeArgs ==
    { << <<>>, None, PlusPlus, None >>, << Amy, None, PlusEq, <<>> >>,
      << Amy, None, <<"=">>, None >>, << Amy, None, <<>>, None >> }

UpdateArgs == DirectArgs \cup EdgeArgs \cup { parse(t).val : t \in BotTexts \ {None} }

\* messages and channels given to send in SpecBot
SendArgs ==
    { << Message(Amy, None, 5), None >>, << Message(Amy, None, 1), OtherChannel >>,
      << <<"h","i">>, <<>> >> }

\* the texts of the messages posted to the bot in Spec, null among them
EventTexts == { None, <<>>, Amy \o PlusPlus, Amy \o PlusEq \o <<"2">>,
                Amy \o <<":">> \o Tea \o PlusEq \o <<"2">>, Amy \o PlusEq, Amy,
                Bob \o MinusMinus, Eve \o PlusPlus, PlusPlus }

\* the request bodies posted to /slack/events in Spec
Requests ==
    { [event |-> Msg(t)] : t \in EventTexts }
    \cup { [event |-> [channel |-> OtherChannel, text |-> Eve \o PlusPlus]],
           [event |-> [channel |-> PROPS_BOT_CHANNEL_ID]],
           [event |-> [channel |-> OtherChannel]],
           [event |-> [text |-> Amy \o PlusPlus]],
           [event |-> [channel |-> PROPS_BOT_CHANNEL_ID, username |-> Props,
                       text |-> Message(Amy, None, 1)]],
           [event |-> [channel |-> PROPS_BOT_CHANNEL_ID, username |-> Props]],
           [challenge |-> "c", type |-> "url_verification"] }

Handlers == {1, 2}

(* ------------------------------- states ------------------------------- *)

IdleHandler ==
    [pc |-> "idle", id |-> 0, json |-> [challenge |-> "c", type |-> "url_verification"],
     seen |-> EmptyDict, with |-> {}, status |-> 0, err |-> ""]

\* the state all three specifications start from, but for bot
Fresh ==
    /\ props = EmptyDict
    /\ sent = <<>>
    /\ hs = [h \in Handlers |-> IdleHandler]
    /\ nreq = 0
    /\ calls = <<>>

(* ----------------------- direct calls (SpecBot) ----------------------- *)

\* bot.parse(text)
CallParse(text) ==
    /\ Len(calls) < MaxCalls
    /\ LET r == PropsBot_parse(bot, text)
       IN  calls' = Append(calls, [op |-> "parse", args |-> <<text>>,
                                   err |-> r.err, ret |-> r.val])
    /\ UNCHANGED <<props, sent, hs, nreq, bot>>

\* bot.update(name, prop, operator, operand)
CallUpdate(a) ==
    /\ Len(calls) < MaxCalls
    /\ LET r == update(bot, a[1], a[2], a[3], a[4], props, sent)
       IN  /\ props' = r.props
           /\ sent' = r.sent
           /\ calls' = Append(calls, [op |-> "update", args |-> a,
                                      err |-> r.err, ret |-> None])
    /\ UNCHANGED <<hs, nreq, bot>>

\* bot.send(message, channel)
CallSend(message, channel) ==
    /\ Len(calls) < MaxCalls
    /\ LET r == send(bot, message, channel, sent)
       IN  /\ sent' = r.sent
           /\ calls' = Append(calls, [op |-> "send", args |-> <<message, channel>>,
                                      err |-> r.err, ret |-> None])
    /\ UNCHANGED <<props, hs, nreq, bot>>

InitBot == Fresh /\ bot = Msg(Amy \o PlusPlus)

NextBot ==
    \/ \E text \in BotTexts : CallParse(text)
    \/ \E a \in UpdateArgs : CallUpdate(a)
    \/ \E a \in SendArgs : CallSend(a[1], a[2])

SpecBot == InitBot /\ [][NextBot]_vars

(* ---------------------- parse alone (SpecParse) ----------------------- *)

InitParse == Fresh /\ bot \in { Msg(t) : t \in Texts \cup {None} }

\* bot.parse() of the event's text, once
NextParse == calls = <<>> /\ CallParse(None)

SpecParse == InitParse /\ [][NextParse]_vars

(* ------------------------ the application (Spec) ---------------------- *)

\* A request arrives and its handler suspends at `await request.get_json`,
\* the only await of slack_events.  id numbers the requests in arrival
\* order; seen and with record the ledger and the requests in flight at
\* that moment (they are read by no action).
Receive(h, json) ==
    /\ nreq < MaxEvents
    /\ hs[h].pc # "await"
    /\ nreq' = nreq + 1
    /\ hs' = [hs EXCEPT ![h] =
                [pc |-> "await", id |-> nreq + 1, json |-> json, seen |-> props,
                 with |-> {hs[g].id : g \in {x \in Handlers : hs[x].pc = "await"}},
                 status |-> 0, err |-> ""]]
    /\ UNCHANGED <<props, sent, bot, calls>>

\* Handle with the ledger read before the await and written after it: the
\* handler works on the ledger it saw when its request arrived
Handle_StaleLedger(h, api) ==
    /\ hs[h].pc = "await"
    /\ LET r == slack_events(hs[h].json, api, hs[h].seen, sent)
       IN  /\ props' = r.props
           /\ sent' = r.sent
           /\ hs' = [hs EXCEPT ![h].pc = "done", ![h].status = r.status,
                               ![h].err = r.err]
    /\ UNCHANGED <<nreq, bot, calls>>

\* The handler resumes and runs to its response without another await: the
\* event loop runs no other handler in between.  An exception that leaves
\* slack_events is answered with status 500.
Handle(h, api) ==
    /\ hs[h].pc = "await"
    /\ LET r == slack_events(hs[h].json, api, props, sent)
       IN  /\ props' = r.props
           /\ sent' = r.sent
           /\ hs' = [hs EXCEPT ![h].pc = "done", ![h].status = r.status,
                               ![h].err = r.err]
    /\ UNCHANGED <<nreq, bot, calls>>

Init == Fresh /\ bot = Msg(Amy \o PlusPlus)

Next ==
    \/ \E h \in Handlers, json \in Requests : Receive(h, json)
    \/ \E h \in Handlers, api \in ApiOutcomes : Handle(h, api)

Spec == Init /\ [][Next]_vars

(* ======================= properties of the parser ===================== *)

\* a nonempty string of letters and digits
IsAlnum(x) == Len(x) >= 1 /\ \A i \in 1..Len(x) : x[i] \in Lower \cup Upper \cup Digit

\* the last direct call made
LastCall == calls[Len(calls)]

\* what the claim C1 expects of text, when text is one of its four forms
\* t++, t:p++, t+=d, t:p+=d with t, p of letters and digits and d a digit
ExpectedIncrement(text) ==
    IF text = None THEN {} ELSE
    { <<SubSeq(text, 1, n), None, PlusPlus, None>> :
        n \in {n \in 1..Len(text) : /\ IsAlnum(SubSeq(text, 1, n))
                                    /\ SubSeq(text, n + 1, Len(text)) = PlusPlus} }
    \cup
    { <<SubSeq(text, 1, n), None, PlusEq, <<text[Len(text)]>> >> :
        n \in {n \in 1..Len(text) : /\ IsAlnum(SubSeq(text, 1, n))
                                    /\ Len(text) = n + 3
                                    /\ SubSeq(text, n + 1, n + 2) = PlusEq
                                    /\ text[n + 3] \in Digit} }
    \cup
    { <<SubSeq(text, 1, nm[1]), SubSeq(text, nm[1] + 2, nm[2]), PlusPlus, None>> :
        nm \in {nm \in (1..Len(text)) \X (1..Len(text)) :
                    /\ nm[1] + 2 <= nm[2]
                    /\ text[nm[1] + 1] = ":"
                    /\ IsAlnum(SubSeq(text, 1, nm[1]))
                    /\ IsAlnum(SubSeq(text, nm[1] + 2, nm[2]))
                    /\ SubSeq(text, nm[2] + 1, Len(text)) = PlusPlus} }
    \cup
    { <<SubSeq(text, 1, nm[1]), SubSeq(text, nm[1] + 2, nm[2]), PlusEq,
        <<text[Len(text)]>> >> :
        nm \in {nm \in (1..Len(text)) \X (1..Len(text)) :
                    /\ nm[1] + 2 <= nm[2]
                    /\ text[nm[1] + 1] = ":"
                    /\ IsAlnum(SubSeq(text, 1, nm[1]))
                    /\ IsAlnum(SubSeq(text, nm[1] + 2, nm[2]))
                    /\ Len(text) = nm[2] + 3
                    /\ SubSeq(text, nm[2] + 1, nm[2] + 2) = PlusEq
                    /\ text[nm[2] + 3] \in Digit} }

\* C1: for every target t and optional property p of letters and digits and
\* every digit d, parse returns exactly the written fields of an increment
\* command: t++ gives (t, None, "++", None), t:p++ gives (t, p, "++", None),
\* t+=d gives (t, None, "+=", d) and t:p+=d gives (t, p, "+=", d), the
\* operand being the one-character digit string.
C1_ParseIncrement ==
    (calls # <<>> /\ LastCall.op = "parse") =>
        \A e \in ExpectedIncrement(bot.text) : LastCall.err = "" /\ LastCall.ret = e

\* C1 witness: the text a:1+=1 has been parsed into (a, 1, +=, 1)
C1_Witness ==
    /\ calls # <<>>
    /\ LastCall.op = "parse"
    /\ bot.text = <<"a", ":", "1", "+", "=", "1">>
    /\ LastCall.ret = << <<"a">>, <<"1">>, PlusEq, <<"1">> >>
    /\ LastCall.ret \in ExpectedIncrement(bot.text)

(* ======================= properties of update ========================= *)

\* the step just taken was the direct call bot.update(name, prop, operator,
\* operand): the call is the last of calls'
UpdateStep == Len(calls') = Len(calls) + 1 /\ calls'[Len(calls')].op = "update"
StepArgs == calls'[Len(calls')].args
StepErr == calls'[Len(calls')].err

\* (name, prop) has an entry of its own in ledger
HasEntry(ledger, name, prop) == name \in DOMAIN ledger /\ prop \in DOMAIN ledger[name]

\* the number a one-digit operand string denotes
Amount(operand) == CHOOSE d \in 0..9 : operand = <<DigitChar(d)>>

\* C2: parsing the text bob-- yields target bob with operator -- (no
\* property, no operand), and parsing it and applying the parsed tuple twice
\* on a fresh ledger takes the value of (bob, None) through 0, -1, -2.
C2_DecrementSequence ==
    (calls # <<>> /\ calls[1].op = "parse" /\ calls[1].args = <<Bob \o MinusMinus>>) =>
        /\ calls[1].ret = <<Bob, None, MinusMinus, None>>
        /\ (\A i \in 2..Len(calls) :
                calls[i].op = "update" /\ calls[i].args = calls[1].ret)
            => Read(props, Bob, None) = 0 - (Len(calls) - 1)

\* C3: update stores at (target, property) the value current+1 for "++",
\* current-1 for "--", current+operand for "+=" and current-operand for
\* "-=", current being the value stored before the call (0 without an
\* entry); "++" and "--" change the value by exactly 1 whatever the operand,
\* and the entry exists afterwards.
C3_UpdateStores ==
    [][ (UpdateStep /\ StepErr = "" /\ StepArgs[3] \in OperatorTokens) =>
          LET name    == StepArgs[1]
              prop    == StepArgs[2]
              current == IF HasEntry(props, name, prop) THEN props[name][prop] ELSE 0
          IN  /\ HasEntry(props', name, prop)
              /\ StepArgs[3] = PlusPlus   => props'[name][prop] = current + 1
              /\ StepArgs[3] = MinusMinus => props'[name][prop] = current - 1
              /\ StepArgs[3] = PlusEq  => props'[name][prop] = current + Amount(StepArgs[4])
              /\ StepArgs[3] = MinusEq => props'[name][prop] = current - Amount(StepArgs[4])
      ]_vars

\* C3 witness: three completed updates, "-=" 2 creating (bob, tea) at -2,
\* then "--" given an operand, then "+=" 2, leave it at -1
C3_Witness ==
    /\ Len(calls) = 3
    /\ \A i \in 1..3 : calls[i].op = "update" /\ calls[i].err = ""
    /\ calls[1].args = <<Bob, Tea, MinusEq, <<"2">> >>
    /\ calls[2].args = <<Bob, Tea, MinusMinus, <<"2">> >>
    /\ calls[3].args = <<Bob, Tea, PlusEq, <<"2">> >>
    /\ HasEntry(props, Bob, Tea)
    /\ props[Bob][Tea] = 0 - 1

\* C4: an update whose operator is null changes nothing in the ledger (no
\* value, no entry for a target or property, even one never seen) and
\* reports the stored value, 0 for a pair never mutated; so repeated
\* queries leave the stored value the same.
C4_QueryReadsOnly ==
    [][ (UpdateStep /\ StepArgs[3] = None) =>
          LET name   == StepArgs[1]
              prop   == StepArgs[2]
              stored == IF HasEntry(props, name, prop) THEN props[name][prop] ELSE 0
          IN  /\ props' = props
              /\ StepErr = ""
              /\ Len(sent') = Len(sent) + 1
              /\ SubSeq(sent', 1, Len(sent)) = sent
              /\ sent'[Len(sent')].text =
                    Fmt(name) \o <<":">> \o Fmt(prop) \o <<" ","=",">"," ">> \o IntStr(stored)
      ]_vars

\* C4 witness: after one increment of (bob, tea), bob:tea is queried twice and
\* amy, never seen, once: both answers for bob:tea report 1, amy's reports 0,
\* and the ledger holds the entry of bob alone
C4_Witness ==
    /\ Len(calls) = 3 /\ Len(sent) = 3
    /\ calls[1].op = "update" /\ calls[1].args = <<Bob, Tea, PlusPlus, None>>
    /\ \A i \in 2..3 : calls[i].op = "update" /\ calls[i].args[3] = None
    /\ calls[2].args = <<Bob, Tea, None, None>>
    /\ sent[2].text = <<"b","o","b",":","t","e","a"," ","=",">"," ","1">>
    /\ calls[3].args = <<Amy, None, None, None>>
    /\ sent[3].text = <<"a","m","y",":","N","o","n","e"," ","=",">"," ","0">>
    /\ DOMAIN props = {Bob}

\* C6: an update with "+=" or "-=" and a null operand is rejected with an
\* error; it is not coerced into an amount such as 0 or 1 and stores no new
\* value for the pair.
C6_MissingOperandRejected ==
    [][ (UpdateStep /\ StepArgs[3] \in {PlusEq, MinusEq} /\ StepArgs[4] = None) =>
          /\ StepErr = "TypeError"
          /\ HasEntry(props', StepArgs[1], StepArgs[2]) =>
                /\ HasEntry(props, StepArgs[1], StepArgs[2])
                /\ props'[StepArgs[1]][StepArgs[2]] = props[StepArgs[1]][StepArgs[2]]
      ]_vars

\* C6 witness: (amy, None) stands at 1 and "+=" and "-=" without an operand
\* have both been called on it and have both raised
C6_Witness ==
    /\ Len(calls) = 3
    /\ calls[1].args = <<Amy, None, PlusPlus, None>> /\ calls[1].err = ""
    /\ calls[2].op = "update" /\ calls[2].args = <<Amy, None, PlusEq, None>>
    /\ calls[3].op = "update" /\ calls[3].args = <<Amy, None, MinusEq, None>>
    /\ calls[2].err = "TypeError" /\ calls[3].err = "TypeError"

\* C7: when an update with "+=" or "-=" has no operand and raises, the
\* command is ignored: the ledger after the failed call equals the ledger
\* before it for every pair, the other properties of the target included.
C7_FailedUpdateIgnored ==
    [][ (UpdateStep /\ StepArgs[3] \in {PlusEq, MinusEq} /\ StepArgs[4] = None
            /\ StepErr # "") => props' = props
      ]_vars

(* ==================== properties of the application =================== *)

\* handler h has just run slack_events to its response
Handled(h) == hs[h].pc = "await" /\ hs'[h].pc = "done"

\* the body carries an event with these fields
HasEvent(json) == "event" \in DOMAIN json
HasText(json) == HasEvent(json) /\ "text" \in DOMAIN json.event
HasChannel(json) == HasEvent(json) /\ "channel" \in DOMAIN json.event

\* the names of the listed members who are in the channel
MemberNames(channel) == {u.name : u \in {x \in Users : x.id \in ChannelMembers(channel)}}

\* C5: an event whose parsed target is not among the names of the members
\* of the originating channel never changes the ledger and never causes a
\* reply, however well-formed its command text is.
C5_MembershipGate ==
    [][ \A h \in Handlers :
          (/\ Handled(h)
           /\ HasText(hs[h].json) /\ HasChannel(hs[h].json)
           /\ hs[h].json.event.text # None
           /\ search(hs[h].json.event.text)[1] \notin MemberNames(hs[h].json.event.channel))
          => props' = props /\ sent' = sent
      ]_vars

\* C5 witness: eve++, well-formed and naming a listed user who is not in the
\* props channel, has been handled to a 200 while amy holds props
C5_Witness ==
    \E h \in Handlers :
        /\ hs[h].pc = "done"
        /\ hs[h].json = [event |-> Msg(Eve \o PlusPlus)]
        /\ hs[h].status = 200
        /\ Eve \notin MemberNames(PROPS_BOT_CHANNEL_ID)
        /\ Amy \in DOMAIN props
        /\ Eve \notin DOMAIN props

\* the body is an increment command for a member of the props channel that
\* slack_events takes to update: t++ or t+=d, with or without a property
IsIncrement(json) ==
    /\ HasText(json) /\ HasChannel(json)
    /\ json.event.channel = PROPS_BOT_CHANNEL_ID
    /\ ~("username" \in DOMAIN json.event /\ json.event.username = Props)
    /\ json.event.text # None
    /\ LET p == search(json.event.text)
       IN  /\ p[1] \in MemberNames(json.event.channel)
           /\ p[3] = PlusPlus \/ (p[3] = PlusEq /\ p[4] # None)

Increment(json) ==
    LET p == search(json.event.text)
    IN  IF p[3] = PlusPlus THEN 1 ELSE Amount(p[4])

\* C8: when two requests that each increment the same (target, property)
\* are handled simultaneously, no increment is lost: after both complete
\* the stored value is the value when both were in flight plus the sum of
\* both increments, under every interleaving of the two handlers' steps.
C8_NoLostIncrement ==
    \A h1, h2 \in Handlers :
        (/\ h1 # h2
         /\ hs[h1].pc = "done" /\ hs[h2].pc = "done"
         /\ hs[h1].id \in hs[h2].with
         /\ IsIncrement(hs[h1].json) /\ IsIncrement(hs[h2].json)
         /\ hs[h1].status = 200 /\ hs[h2].status = 200
         /\ search(hs[h1].json.event.text)[1] = search(hs[h2].json.event.text)[1]
         /\ search(hs[h1].json.event.text)[2] = search(hs[h2].json.event.text)[2])
        => LET p == search(hs[h1].json.event.text)
           IN  Read(props, p[1], p[2]) =
                 Read(hs[h2].seen, p[1], p[2]) + Increment(hs[h1].json)
                                               + Increment(hs[h2].json)

\* C8 witness: amy++ and amy+=2 were in flight together on a ledger where
\* amy stood at 1, both have completed, and amy stands at 4
C8_Witness ==
    \E h1, h2 \in Handlers :
        /\ h1 # h2
        /\ hs[h1].pc = "done" /\ hs[h2].pc = "done"
        /\ hs[h1].id \in hs[h2].with
        /\ hs[h1].status = 200 /\ hs[h2].status = 200
        /\ hs[h1].json = [event |-> Msg(Amy \o PlusPlus)]
        /\ hs[h2].json = [event |-> Msg(Amy \o PlusEq \o <<"2">>)]
        /\ Read(hs[h2].seen, Amy, None) = 1
        /\ Read(props, Amy, None) = 4

\* C9: an event that lacks the text field ends in EventTextError and one
\* that lacks the channel field ends in EventChannelError; in both cases
\* the request ends without changing the ledger and without a reply.
C9_NamedErrors ==
    [][ \A h \in Handlers :
          (Handled(h) /\ HasEvent(hs[h].json)) =>
              /\ ~HasText(hs[h].json) =>
                    hs'[h].err = "EventTextError" /\ props' = props /\ sent' = sent
              /\ ~HasChannel(hs[h].json) =>
                    hs'[h].err = "EventChannelError" /\ props' = props /\ sent' = sent
      ]_vars

\* C10: every handled event whose target is a channel member and whose
\* update completes sends exactly one reply, to the channel the event came
\* from, reading "{target}:{property} => {value}" with the value stored for
\* (target, property) after the update (the unchanged stored value, or 0,
\* for a query without operator).
C10_OneReply ==
    [][ \A h \in Handlers :
          (/\ Handled(h)
           /\ HasText(hs[h].json) /\ HasChannel(hs[h].json)
           /\ hs[h].json.event.channel = PROPS_BOT_CHANNEL_ID
           /\ ~("username" \in DOMAIN hs[h].json.event
                    /\ hs[h].json.event.username = Props)
           /\ hs[h].json.event.text # None
           /\ search(hs[h].json.event.text)[1] \in MemberNames(hs[h].json.event.channel)
           /\ hs'[h].status = 200)
          => LET p     == search(hs[h].json.event.text)
                 value == IF HasEntry(props', p[1], p[2]) THEN props'[p[1]][p[2]] ELSE 0
             IN  /\ sent' = Append(sent,
                        [channel |-> hs[h].json.event.channel,
                         text |-> Fmt(p[1]) \o <<":">> \o Fmt(p[2])
                                    \o <<" ","=",">"," ">> \o IntStr(value)])
                 /\ p[3] = None => props' = props
      ]_vars

\* C10 witness: amy:tea+=2, amy:tea+=2 and the query amy have been handled;
\* the replies, all to the props channel, read amy:tea => 2, amy:tea => 4
\* and amy:None => 0
C10_Witness ==
    /\ Len(sent) = 3
    /\ \A i \in 1..3 : sent[i].channel = PROPS_BOT_CHANNEL_ID
    /\ sent[1].text = <<"a","m","y",":","t","e","a"," ","=",">"," ","2">>
    /\ sent[2].text = <<"a","m","y",":","t","e","a"," ","=",">"," ","4">>
    /\ sent[3].text = <<"a","m","y",":","N","o","n","e"," ","=",">"," ","0">>
    /\ \E h \in Handlers : hs[h].pc = "done" /\ hs[h].status = 200
                            /\ hs[h].json = [event |-> Msg(Amy)]
    /\ Read(props, Amy, Tea) = 4

(* ========================= frame of update ============================ *)

\* the pairs that have an entry in ledger
Entries(ledger) == UNION { {<<n, p>> : p \in DOMAIN ledger[n]} : n \in DOMAIN ledger }

\* C11: a completed update with an operator on (target, property) changes
\* only that pair: every other property of the same target and every
\* property of every other target has the same entry and the same value
\* after the call as before it.
C11_UpdateFrame ==
    [][ (UpdateStep /\ StepErr = "" /\ Truthy(StepArgs[3])) =>
          \A e \in (Entries(props) \cup Entries(props')) \ {<<StepArgs[1], StepArgs[2]>>} :
              /\ HasEntry(props, e[1], e[2])
              /\ HasEntry(props', e[1], e[2])
              /\ props'[e[1]][e[2]] = props[e[1]][e[2]]
      ]_vars

\* C11 witness: with (bob, tea) and (amy, None) at 1, the completed update
\* "+=" 2 of (bob, None) has left both at 1 beside the new (bob, None) = 2
C11_Witness ==
    /\ Len(calls) = 3
    /\ \A i \in 1..3 : calls[i].op = "update" /\ calls[i].err = ""
    /\ calls[1].args = <<Bob, Tea, PlusPlus, None>>
    /\ calls[2].args = <<Amy, None, PlusPlus, None>>
    /\ calls[3].args = <<Bob, None, PlusEq, <<"2">> >>
    /\ Entries(props) = { <<Bob, Tea>>, <<Amy, None>>, <<Bob, None>> }
    /\ props[Bob][Tea] = 1 /\ props[Amy][None] = 1 /\ props[Bob][None] = 2

(* ================= one message, parsed and handled (SpecText) ========= *)

\* the message of bot is posted to /slack/events, once
ReceiveText == nreq = 0 /\ Receive(1, [event |-> bot])

\* the message is parsed directly and, independently, handled as a request
NextText ==
    \/ NextParse
    \/ ReceiveText
    \/ \E api \in ApiOutcomes : Handle(1, api)

\* the characters of the messages of SpecText: every character of Alphabet
\* that is no identifier character, and one that is
TextAlphabet == {"a", "+", "=", ":", " "}

InitText ==
    Fresh /\ bot \in { Msg(t) : t \in {None} \cup UNION { [1..n -> TextAlphabet] : n \in 0..MaxLen } }

SpecText == InitText /\ [][NextText]_vars

\* text holds no identifier character: no letter, digit, '_' or '-'
NoIdent(text) == \A i \in 1..Len(text) : text[i] \notin Lower \cup Upper \cup Digit \cup {"_", "-"}

\* C12: when the text contains no identifier character, parse returns null
\* for all four fields, and handling that event changes nothing in the
\* ledger and sends no reply.
C12_Unparsable ==
    [][ (bot.text # None /\ NoIdent(bot.text)) =>
          /\ (calls' # <<>> /\ calls'[Len(calls')].op = "parse") =>
                /\ calls'[Len(calls')].err = ""
                /\ calls'[Len(calls')].ret = <<None, None, None, None>>
          /\ \A h \in Handlers :
                (Handled(h) /\ hs[h].json = [event |-> bot]) =>
                    props' = props /\ sent' = sent
      ]_vars

\* C12 witness: the text "+=: +" has been parsed to four nulls and its event
\* handled to a 200, and nothing was stored or posted
C12_Witness ==
    /\ bot.text = <<"+", "=", ":", " ", "+">>
    /\ NoIdent(bot.text)
    /\ calls # <<>> /\ LastCall.op = "parse"
    /\ LastCall.ret = <<None, None, None, None>>
    /\ hs[1].pc = "done" /\ hs[1].json = [event |-> bot] /\ hs[1].status = 200
    /\ props = EmptyDict /\ sent = <<>>

(* ================== the filters of the request handler ================ *)

\* the body carries an event whose username is 'props'
FromProps(json) ==
    HasEvent(json) /\ "username" \in DOMAIN json.event /\ json.event.username = Props

\* C13: an event whose username is 'props' (a reply posted by the bot
\* itself) is acknowledged without being parsed: it never changes the
\* ledger and never causes a further reply, so the bot's replies cannot
\* start a chain of replies to replies.
C13_OwnRepliesIgnored ==
    [][ \A h \in Handlers :
          (Handled(h) /\ FromProps(hs[h].json)) =>
              /\ props' = props
              /\ sent' = sent
              /\ hs'[h].err # "EventTextError"
              /\ HasChannel(hs[h].json) => hs'[h].status = 200 /\ hs'[h].err = ""
      ]_vars

\* C13 witness: amy++ was answered with "amy:None => 1"; that reply, posted
\* back as an event of username 'props', and a 'props' event without text
\* were both acknowledged with 200, and still only the one reply was sent
C13_Witness ==
    /\ Len(sent) = 1
    /\ sent[1].text = <<"a","m","y",":","N","o","n","e"," ","=",">"," ","1">>
    /\ \E h1, h2 \in Handlers :
          /\ hs[h1].pc = "done" /\ hs[h2].pc = "done"
          /\ hs[h1].json = [event |-> [channel |-> sent[1].channel,
                                       username |-> Props, text |-> sent[1].text]]
          /\ hs[h2].json = [event |-> [channel |-> PROPS_BOT_CHANNEL_ID,
                                       username |-> Props]]
          /\ hs[h1].status = 200 /\ hs[h2].status = 200
    /\ Read(props, Amy, None) = 1

\* C14: the ledger changes and a reply is sent only while handling an event
\* whose channel is the configured props channel; an event of any other
\* channel, with or without text, never changes the ledger and never
\* causes a reply.
C14_PropsChannelOnly ==
    [][ \A h \in Handlers :
          Handled(h) =>
              /\ (props' # props \/ sent' # sent) =>
                    /\ HasChannel(hs[h].json)
                    /\ hs[h].json.event.channel = PROPS_BOT_CHANNEL_ID
              /\ (HasChannel(hs[h].json)
                    /\ hs[h].json.event.channel # PROPS_BOT_CHANNEL_ID) =>
                    props' = props /\ sent' = sent
      ]_vars

\* C14 witness: after amy++ of the props channel was applied, eve++ of
\* another channel, where eve is a member, and an event of that channel
\* without text have been handled; eve has no entry and one reply was sent
C14_Witness ==
    /\ \E h1, h2 \in Handlers :
          /\ hs[h1].pc = "done" /\ hs[h2].pc = "done"
          /\ hs[h1].json = [event |-> [channel |-> OtherChannel, text |-> Eve \o PlusPlus]]
          /\ hs[h1].status = 200
          /\ hs[h2].json = [event |-> [channel |-> OtherChannel]]
          /\ hs[h2].err = "EventTextError"
    /\ Eve \in MemberNames(OtherChannel)
    /\ Entries(props) = { <<Amy, None>> }
    /\ Len(sent) = 1 /\ sent[1].channel = PROPS_BOT_CHANNEL_ID

====
